---- MODULE Spec2Model ----
(***************************************************************************)
(* The resource client of src/services/api.js: one shared axios instance   *)
(* (apiClient) and four async operations over it, fetchPosts,              *)
(* fetchPostById, fetchUser and createPost.  Each invocation runs in two   *)
(* steps, as an async function does: the synchronous part up to the await  *)
(* (the request is handed to the transport), and the continuation that     *)
(* runs once the transport's promise has settled (return response.data, or *)
(* catch / log / throw, and fetchUser's finally).  The transport itself is *)
(* the environment: it fulfils or rejects each pending request.            *)
(***************************************************************************)
EXTENDS Integers, Sequences, FiniteSets, TLC

(* ---------------------------- bounds ---------------------------------- *)
\* number of invocations in one behaviour
MaxCalls == 2
\* number of invocations in one behaviour of the wide-argument specification
MaxArgCalls == 1
\* largest id a caller passes
MaxId == 10
\* largest explicit limit a caller passes to fetchPosts
MaxLimit == 11

Calls == 1..MaxCalls
\* the arguments callers pass: every one under SpecArgs, a sample under Spec
IdValues == 0..MaxId
LimitValues == 1..MaxLimit
IdSample == { MaxId }
LimitSample == { MaxLimit }
\* the payloads the remote service answers with and callers post (opaque)
DataValues == { "payloadA", "payloadB" }
\* the body of an error response
ErrorBody == "error body"
ErrorStatuses == {404, 500}

(* ------------------------ the shared client --------------------------- *)
\* timeout: 10000 // 10 seconds
TimeoutMs == 10000

\* axios.create({ baseURL, headers, timeout })
apiClientConfig ==
    [ baseURL |-> "https://jsonplaceholder.typicode.com",
      headers |-> [ ContentType |-> "application/json", Accept |-> "application/json" ],
      timeout |-> TimeoutMs ]

VARIABLES
    apiClient,   \* the module-level axios instance's defaults
    nCalls,      \* invocations made so far; invocation c is the c-th one
    op,          \* op[c]: which operation invocation c is
    args,        \* args[c]: the argument list the caller passed
    pc,          \* pc[c]: "idle", "awaiting" (suspended at the await), "settled"
    awaited,     \* awaited[c]: the transport promise invocation c awaits
    result,      \* result[c]: the promise the async function returned
    transport,   \* requests handed to apiClient.get / apiClient.post, in order
    console,     \* console.error / console.log output, in order
    store,       \* the main store: absent until useMainStore() first runs
    increments,  \* calls of the store's increment() so far
    storage      \* the browser storage entry of the store: absent, or a saved counter

apiVars == << apiClient, nCalls, op, args, pc, awaited, result, transport, console >>
storeVars == << store, increments, storage >>
vars == << apiVars, storeVars >>

(* ----------------------------- promises ------------------------------- *)
\* absent values are the empty sequence, present ones a one-element sequence
None == << >>
Some(v) == << v >>

Pending == [ state |-> "pending", value |-> None, reason |-> None ]
Fulfilled(v) == [ state |-> "fulfilled", value |-> Some(v), reason |-> None ]
Rejected(e) == [ state |-> "rejected", value |-> None, reason |-> Some(e) ]

(* ------------------- template literals: `${id}` ----------------------- *)
\* the decimal digits of a natural number, most significant first
RECURSIVE DecimalDigits(_)
DecimalDigits(n) ==
    IF n < 10 THEN << n >> ELSE Append(DecimalDigits(n \div 10), n % 10)

\* `<literal>${id}`: the literal text followed by the id's digits
Template(literal, id) == [ lit |-> literal, sub |-> DecimalDigits(id) ]
\* a plain string literal
Literal(literal) == [ lit |-> literal, sub |-> None ]

(* ------------------------- building requests -------------------------- *)
\* export const fetchPosts = async (limit = 10) => ...
DefaultLimit == 10

\* mutant: the caller's limit is ignored, the default is always requested
fetchPostsLimit_AlwaysDefault(a) == DefaultLimit

\* the default parameter: an omitted argument takes the default
fetchPostsLimit(a) == IF Len(a) = 0 THEN DefaultLimit ELSE a[1]

\* apiClient.get(`/posts`, { params: { _limit: limit } })
fetchPostsRequest(a) ==
    [ method |-> "GET", url |-> Literal("/posts"),
      params |-> Some([ _limit |-> fetchPostsLimit(a) ]), data |-> None ]

\* apiClient.get(`/posts/${id}`)
fetchPostByIdRequest(a) ==
    [ method |-> "GET", url |-> Template("/posts/", a[1]), params |-> None, data |-> None ]

\* mutant: the user is looked up under the posts path
fetchUserRequest_PostsPath(a) ==
    [ method |-> "GET", url |-> Template("/posts/", a[1]), params |-> None, data |-> None ]

\* apiClient.get(`/users/${id}`)
fetchUserRequest(a) ==
    [ method |-> "GET", url |-> Template("/users/", a[1]), params |-> None, data |-> None ]

\* apiClient.post('/posts', postData)
createPostRequest(a) ==
    [ method |-> "POST", url |-> Literal("/posts"), params |-> None, data |-> Some(a[1]) ]

\* the request the instance hands to the transport: the call's own settings
\* over the instance defaults (baseURL, headers, timeout)
MergeConfig(c, cfg) ==
    [ call |-> c, method |-> cfg.method, url |-> cfg.url, params |-> cfg.params,
      data |-> cfg.data, baseURL |-> apiClient.baseURL, headers |-> apiClient.headers,
      timeout |-> apiClient.timeout ]

\* mutant: a request equal to an earlier one is answered from a cache, not sent
Issue_Cached(sent, req) ==
    IF \E i \in DOMAIN sent :
          /\ sent[i].method = req.method
          /\ sent[i].url = req.url
          /\ sent[i].params = req.params
          /\ sent[i].data = req.data
    THEN sent
    ELSE Append(sent, req)

\* apiClient.get(...) / apiClient.post(...): one request handed to the transport
Issue(sent, req) == Append(sent, req)

(* ----------------------------- console -------------------------------- *)
LogEntry(c, level, label) ==
    [ call |-> c, level |-> level, label |-> label, id |-> None, status |-> None,
      data |-> None, request |-> None, message |-> None, error |-> None ]

\* mutant: the catch block tests error.request before error.response
fetchPostsCatchLog_RequestFirst(c, error) ==
    IF Len(error.request) > 0
    THEN [ LogEntry(c, "error", "Network Error:") EXCEPT !.request = error.request ]
    ELSE IF Len(error.response) > 0
    THEN [ LogEntry(c, "error", "Server Error:")
             EXCEPT !.status = Some(error.response[1].status),
                    !.data = Some(error.response[1].data) ]
    ELSE [ LogEntry(c, "error", "Error:") EXCEPT !.message = Some(error.message) ]

\* fetchPosts' catch block: the if / else-if / else over the caught error
fetchPostsCatchLog(c, error) ==
    IF Len(error.response) > 0
    THEN [ LogEntry(c, "error", "Server Error:")
             EXCEPT !.status = Some(error.response[1].status),
                    !.data = Some(error.response[1].data) ]
    ELSE IF Len(error.request) > 0
    THEN [ LogEntry(c, "error", "Network Error:") EXCEPT !.request = error.request ]
    ELSE [ LogEntry(c, "error", "Error:") EXCEPT !.message = Some(error.message) ]

\* console.error(`Error fetching post with ID ${id}:`, error)
fetchPostByIdCatchLog(c, id, error) ==
    [ LogEntry(c, "error", "Error fetching post with ID")
        EXCEPT !.id = DecimalDigits(id), !.error = Some(error) ]

\* console.error(`Error fetching user with ID ${id}:`, error)
fetchUserCatchLog(c, id, error) ==
    [ LogEntry(c, "error", "Error fetching user with ID")
        EXCEPT !.id = DecimalDigits(id), !.error = Some(error) ]

\* console.error('Error creating post:', error)
createPostCatchLog(c, error) ==
    [ LogEntry(c, "error", "Error creating post:") EXCEPT !.error = Some(error) ]

\* console.log('User fetch operation completed')
CompletionNotice(c) == LogEntry(c, "log", "User fetch operation completed")

(* --------------- the continuations after the await -------------------- *)
\* what a continuation does: the lines it writes to the console, in order,
\* and how the promise of the async function settles
Outcome(lines, settled) == [ console |-> lines, result |-> settled ]

\* mutant: when no response arrived the catch block logs and falls back to
\* returning nothing instead of throwing
fetchPostsSettle_FallbackOffline(c, a, aw) ==
    IF aw.state = "fulfilled"
    THEN Outcome(<< >>, Fulfilled(aw.value[1].data))
    ELSE IF Len(aw.reason[1].response) = 0 /\ Len(aw.reason[1].request) > 0
    THEN Outcome(<< fetchPostsCatchLog(c, aw.reason[1]) >>, Fulfilled("undefined"))
    ELSE Outcome(<< fetchPostsCatchLog(c, aw.reason[1]) >>, Rejected(aw.reason[1]))

\* fetchPosts: return response.data, or catch: classify, log, throw error
fetchPostsSettle(c, a, aw) ==
    IF aw.state = "fulfilled"
    THEN Outcome(<< >>, Fulfilled(aw.value[1].data))
    ELSE Outcome(<< fetchPostsCatchLog(c, aw.reason[1]) >>, Rejected(aw.reason[1]))

\* mutant: the catch block logs and falls off its end, the call returns undefined
fetchPostByIdSettle_NoRethrow(c, a, aw) ==
    IF aw.state = "fulfilled"
    THEN Outcome(<< >>, Fulfilled(aw.value[1].data))
    ELSE Outcome(<< fetchPostByIdCatchLog(c, a[1], aw.reason[1]) >>, Fulfilled("undefined"))

\* fetchPostById: return response.data, or catch: log, throw error
fetchPostByIdSettle(c, a, aw) ==
    IF aw.state = "fulfilled"
    THEN Outcome(<< >>, Fulfilled(aw.value[1].data))
    ELSE Outcome(<< fetchPostByIdCatchLog(c, a[1], aw.reason[1]) >>, Rejected(aw.reason[1]))

\* mutant: the completion notice is the last statement of the try block
fetchUserSettle_NoticeInTry(c, a, aw) ==
    IF aw.state = "fulfilled"
    THEN Outcome(<< CompletionNotice(c) >>, Fulfilled(aw.value[1].data))
    ELSE Outcome(<< fetchUserCatchLog(c, a[1], aw.reason[1]) >>, Rejected(aw.reason[1]))

\* mutant: the catch block throws before it logs
fetchUserSettle_ThrowBeforeLog(c, a, aw) ==
    IF aw.state = "fulfilled"
    THEN Outcome(<< CompletionNotice(c) >>, Fulfilled(aw.value[1].data))
    ELSE Outcome(<< CompletionNotice(c) >>, Rejected(aw.reason[1]))

\* fetchUser: as fetchPostById, and the finally block logs after either path
fetchUserSettle(c, a, aw) ==
    IF aw.state = "fulfilled"
    THEN Outcome(<< CompletionNotice(c) >>, Fulfilled(aw.value[1].data))
    ELSE Outcome(<< fetchUserCatchLog(c, a[1], aw.reason[1]), CompletionNotice(c) >>,
                 Rejected(aw.reason[1]))

\* mutant: the catch block throws a new error in place of the caught one
createPostSettle_Wrapped(c, a, aw) ==
    IF aw.state = "fulfilled"
    THEN Outcome(<< >>, Fulfilled(aw.value[1].data))
    ELSE Outcome(<< createPostCatchLog(c, aw.reason[1]) >>,
                 Rejected([ response |-> None, request |-> None,
                            message |-> "Failed to create post", code |-> "" ]))

\* mutant: on success the call returns the data it posted, not the response's
createPostSettle_EchoesInput(c, a, aw) ==
    IF aw.state = "fulfilled"
    THEN Outcome(<< >>, Fulfilled(a[1]))
    ELSE Outcome(<< createPostCatchLog(c, aw.reason[1]) >>, Rejected(aw.reason[1]))

\* createPost: return response.data, or catch: log, throw error
createPostSettle(c, a, aw) ==
    IF aw.state = "fulfilled"
    THEN Outcome(<< >>, Fulfilled(aw.value[1].data))
    ELSE Outcome(<< createPostCatchLog(c, aw.reason[1]) >>, Rejected(aw.reason[1]))

\* mutant: the response is kept in a variable shared by all invocations, which
\* another invocation's settlement overwrites
Awaited_Shared(c) ==
    IF \E d \in Calls : d # c /\ awaited[d].state # "pending"
    THEN awaited[CHOOSE d \in Calls : d # c /\ awaited[d].state # "pending"]
    ELSE awaited[c]

\* const response = await ...: each invocation resumes with the settlement
\* of the promise it awaited itself
Awaited(c) == awaited[c]

(* ------------------------------- Init --------------------------------- *)
ApiInit ==
    /\ apiClient = apiClientConfig
    /\ nCalls = 0
    /\ op = [ c \in Calls |-> "none" ]
    /\ args = [ c \in Calls |-> << >> ]
    /\ pc = [ c \in Calls |-> "idle" ]
    /\ awaited = [ c \in Calls |-> Pending ]
    /\ result = [ c \in Calls |-> Pending ]
    /\ transport = << >>
    /\ console = << >>

\* nothing has used the store yet, the browser storage holds no entry for it
Init ==
    /\ ApiInit
    /\ store = None
    /\ increments = 0
    /\ storage = None

(* ------------------- invoking an operation ---------------------------- *)
\* the synchronous part of an async operation: build the request, hand it to
\* the transport, suspend at the await
Invoke(maxCalls, name, a, cfg) ==
    /\ nCalls < maxCalls
    /\ LET c == nCalls + 1 IN
        /\ nCalls' = c
        /\ op' = [ op EXCEPT ![c] = name ]
        /\ args' = [ args EXCEPT ![c] = a ]
        /\ pc' = [ pc EXCEPT ![c] = "awaiting" ]
        /\ transport' = Issue(transport, MergeConfig(c, cfg))
    /\ UNCHANGED << apiClient, awaited, result, console >>
    /\ UNCHANGED storeVars

\* fetchPosts() or fetchPosts(limit)
fetchPosts(maxCalls, limits) ==
    \E a \in { << >> } \cup { << n >> : n \in limits } :
        Invoke(maxCalls, "fetchPosts", a, fetchPostsRequest(a))

fetchPostById(maxCalls, ids) ==
    \E id \in ids : Invoke(maxCalls, "fetchPostById", << id >>, fetchPostByIdRequest(<< id >>))

fetchUser(maxCalls, ids) ==
    \E id \in ids : Invoke(maxCalls, "fetchUser", << id >>, fetchUserRequest(<< id >>))

createPost(maxCalls, bodies) ==
    \E d \in bodies : Invoke(maxCalls, "createPost", << d >>, createPostRequest(<< d >>))

(* ------------------- the transport (environment) ---------------------- *)
\* the requests of invocation c that are waiting for the transport
\* a continuation is due: a promise has settled and its invocation has not
\* resumed yet.  Continuations are microtasks: they run before the event loop
\* delivers the next network event.
ContinuationDue == \E c \in Calls : pc[c] = "awaiting" /\ awaited[c].state # "pending"

InFlight(c) ==
    { i \in DOMAIN transport :
        /\ transport[i].call = c
        /\ pc[c] = "awaiting"
        /\ awaited[c].state = "pending"
        /\ ~ContinuationDue }

Settle(c, settlement) ==
    /\ awaited' = [ awaited EXCEPT ![c] = settlement ]
    /\ UNCHANGED << apiClient, nCalls, op, args, pc, result, transport, console >>
    /\ UNCHANGED storeVars

\* a 2xx response arrives in time: the transport promise is fulfilled
TransportRespond ==
    \E c \in Calls, d \in DataValues : \E i \in InFlight(c) :
        Settle(c, Fulfilled([ status |-> IF transport[i].method = "POST" THEN 201 ELSE 200,
                                 data |-> d, config |-> transport[i] ]))

\* a response outside 2xx arrives in time: rejected, the error carries
\* the response and the request
TransportStatusError ==
    \E c \in Calls, s \in ErrorStatuses : \E i \in InFlight(c) :
        Settle(c, Rejected([ response |-> Some([ status |-> s, data |-> ErrorBody ]),
                                request |-> Some(transport[i]),
                                message |-> "Request failed with status code",
                                code |-> "ERR_BAD_REQUEST" ]))

\* the request was sent and the connection failed: rejected, the error
\* carries the request and no response
TransportNetworkError ==
    \E c \in Calls : \E i \in InFlight(c) :
        Settle(c, Rejected([ response |-> None, request |-> Some(transport[i]),
                                message |-> "Network Error", code |-> "ERR_NETWORK" ]))

\* the request's timeout expired with no response: rejected, the error
\* carries the request and no response
TransportTimeout ==
    \E c \in Calls : \E i \in InFlight(c) :
        /\ transport[i].timeout > 0
        /\ Settle(c, Rejected([ response |-> None, request |-> Some(transport[i]),
                                message |-> "timeout exceeded", code |-> "ECONNABORTED" ]))

\* the request could not be set up: rejected before anything was sent, the
\* error carries neither a response nor a request
TransportSetupError ==
    \E c \in Calls : \E i \in InFlight(c) :
        Settle(c, Rejected([ response |-> None, request |-> None,
                                message |-> "request setup failed", code |-> "ERR_BAD_OPTION" ]))

(* ------------------- resuming after the await ------------------------- *)
Resume(c, name, outcome) ==
    /\ pc[c] = "awaiting"
    /\ op[c] = name
    /\ awaited[c].state # "pending"
    /\ console' = console \o outcome.console
    /\ result' = [ result EXCEPT ![c] = outcome.result ]
    /\ pc' = [ pc EXCEPT ![c] = "settled" ]
    /\ UNCHANGED << apiClient, nCalls, op, args, awaited, transport >>
    /\ UNCHANGED storeVars

fetchPostsResume ==
    \E c \in Calls : Resume(c, "fetchPosts", fetchPostsSettle(c, args[c], Awaited(c)))

fetchPostByIdResume ==
    \E c \in Calls : Resume(c, "fetchPostById", fetchPostByIdSettle(c, args[c], Awaited(c)))

fetchUserResume ==
    \E c \in Calls : Resume(c, "fetchUser", fetchUserSettle(c, args[c], Awaited(c)))

createPostResume ==
    \E c \in Calls : Resume(c, "createPost", createPostSettle(c, args[c], Awaited(c)))

TransportStep ==
    \/ TransportRespond
    \/ TransportStatusError
    \/ TransportNetworkError
    \/ TransportTimeout
    \/ TransportSetupError

ResumeStep ==
    \/ fetchPostsResume
    \/ fetchPostByIdResume
    \/ fetchUserResume
    \/ createPostResume

\* any number of invocations may be in flight at once
Next ==
    \/ fetchPosts(MaxCalls, LimitSample)
    \/ fetchPostById(MaxCalls, IdSample)
    \/ fetchUser(MaxCalls, IdSample)
    \/ createPost(MaxCalls, DataValues)
    \/ TransportStep
    \/ ResumeStep

Spec == Init /\ [][Next]_vars

\* the same program, fewer invocations, every argument value
NextArgs ==
    \/ fetchPosts(MaxArgCalls, LimitValues)
    \/ fetchPostById(MaxArgCalls, IdValues)
    \/ fetchUser(MaxArgCalls, IdValues)
    \/ createPost(MaxArgCalls, DataValues)
    \/ TransportStep
    \/ ResumeStep

SpecArgs == Init /\ [][NextArgs]_vars

(* --------------------------- the main store --------------------------- *)
\* number of increment() calls in one behaviour
MaxIncrements == 30
\* largest counter value an earlier session may have left in the browser storage
MaxStored == 2

\* state: () => ({ globalCounter: 0 })
state == [ globalCounter |-> 0 ]

\* persist: false
persist == FALSE

\* the store a first useMainStore() makes: the initial state, over which the
\* persistence plugin lays the saved entry when the store persists
NewStore(saved) ==
    IF persist /\ Len(saved) > 0
    THEN [ state EXCEPT !.globalCounter = saved[1] ]
    ELSE state

\* mutant: the action reads the counter and does not write it back
Incremented_Lost(s) == s

\* this.globalCounter++
Incremented(s) == [ s EXCEPT !.globalCounter = s.globalCounter + 1 ]

\* the storage entry after a change of the store: written when the store persists
Saved(s, saved) == IF persist THEN Some(s.globalCounter) ELSE saved

\* const store = useMainStore(): the first use creates the store; later uses
\* return the same store and change nothing
useMainStore ==
    /\ store = None
    /\ store' = Some(NewStore(storage))
    /\ UNCHANGED << increments, storage >>
    /\ UNCHANGED apiVars

\* store.increment()
increment ==
    /\ store # None
    /\ increments < MaxIncrements
    /\ store' = Some(Incremented(store[1]))
    /\ increments' = increments + 1
    /\ storage' = Saved(Incremented(store[1]), storage)
    /\ UNCHANGED apiVars

\* the browser storage may hold an entry an earlier session left
StoreInit ==
    /\ ApiInit
    /\ store = None
    /\ increments = 0
    /\ storage \in { None } \cup { Some(k) : k \in 0..MaxStored }

NextStore ==
    \/ useMainStore
    \/ increment

SpecStore == StoreInit /\ [][NextStore]_vars

(* ====================== properties of the client ====================== *)
ReadOps == { "fetchPosts", "fetchPostById", "fetchUser" }
AllOps == ReadOps \cup { "createPost" }

\* invocation c has run to its end
Completed(c) == pc[c] = "settled"
\* the transport failed the request of invocation c, and c has run to its end
Failed(c) == Completed(c) /\ awaited[c].state = "rejected"
\* the transport answered the request of invocation c, and c has run to its end
Succeeded(c) == Completed(c) /\ awaited[c].state = "fulfilled"
\* the failure the transport raised for invocation c
Raised(c) == awaited[c].reason[1]

\* the three kinds of failure
KindOf(error) ==
    IF Len(error.response) > 0 THEN "remote-responded"
    ELSE IF Len(error.request) > 0 THEN "no-response"
    ELSE "request-construction"

\* the console line fetchPosts writes for a failure of each kind
KindLine(c, error) ==
    CASE KindOf(error) = "remote-responded" ->
           [ LogEntry(c, "error", "Server Error:")
               EXCEPT !.status = Some(error.response[1].status),
                      !.data = Some(error.response[1].data) ]
      [] KindOf(error) = "no-response" ->
           [ LogEntry(c, "error", "Network Error:") EXCEPT !.request = error.request ]
      [] KindOf(error) = "request-construction" ->
           [ LogEntry(c, "error", "Error:") EXCEPT !.message = Some(error.message) ]

\* the console lines written by invocation c, in order
LinesOf(c) == SelectSeq(console, LAMBDA e : e.call = c)
\* the error lines among them
ErrorLinesOf(c) == SelectSeq(console, LAMBDA e : e.call = c /\ e.level = "error")

\* the one line, naming the operation, that the operations other than
\* fetchPosts write for a failure of any kind
OperationLine(c, error) ==
    CASE op[c] = "fetchPostById" ->
           [ LogEntry(c, "error", "Error fetching post with ID")
               EXCEPT !.id = DecimalDigits(args[c][1]), !.error = Some(error) ]
      [] op[c] = "fetchUser" ->
           [ LogEntry(c, "error", "Error fetching user with ID")
               EXCEPT !.id = DecimalDigits(args[c][1]), !.error = Some(error) ]
      [] op[c] = "createPost" ->
           [ LogEntry(c, "error", "Error creating post:") EXCEPT !.error = Some(error) ]

(* C1, as stated: in each of the three read operations a failure of the
   transport is logged with the line of its kind (remote-responded,
   no-response, request-construction) by the time it is re-signaled. *)
C1_AllReadsClassify ==
    \A c \in Calls :
        (Failed(c) /\ op[c] \in ReadOps) =>
            /\ result[c].state = "rejected"
            /\ ErrorLinesOf(c) = << KindLine(c, Raised(c)) >>

(* C1, amended: only fetchPosts classifies a failure into one of the three
   kinds and logs the line of that kind; fetchPostById and fetchUser log one
   line naming the operation, with the id and the failure itself, whatever
   the kind.  In each case the line is on the console by the time the
   failure is re-signaled. *)
C1_OnlyFetchPostsClassifies ==
    \A c \in Calls :
        (Failed(c) /\ op[c] \in ReadOps) =>
            /\ result[c].state = "rejected"
            /\ ErrorLinesOf(c) =
                 IF op[c] = "fetchPosts"
                 THEN << KindLine(c, Raised(c)) >>
                 ELSE << OperationLine(c, Raised(c)) >>

\* fetchPosts has logged a remote-responded failure under its own line while
\* fetchPostById has logged one under the line naming the operation
C1_Witness ==
    \E c, d \in Calls :
        /\ op[c] = "fetchPosts" /\ Failed(c)
        /\ KindOf(Raised(c)) = "remote-responded"
        /\ ErrorLinesOf(c)[1].label = "Server Error:"
        /\ op[d] = "fetchPostById" /\ Failed(d)
        /\ KindOf(Raised(d)) = "remote-responded"
        /\ ErrorLinesOf(d)[1].label = "Error fetching post with ID"

(* C2: in each of the four operations, a call whose request the transport
   failed ends by signaling that very failure: it does not return, and the
   failure it signals is the one the transport raised. *)
C2_SameFailureResignaled ==
    \A c \in Calls :
        Failed(c) =>
            /\ result[c].state = "rejected"
            /\ result[c].value = None
            /\ result[c].reason = Some(Raised(c))

\* a createPost and a fetchPosts call have both re-signaled a failure
C2_Witness ==
    \E c, d \in Calls :
        /\ op[c] = "createPost" /\ Failed(c) /\ result[c].state = "rejected"
        /\ op[d] = "fetchPosts" /\ Failed(d) /\ result[d].state = "rejected"

(* C3: a completed call has exactly one outcome, a payload or a failure:
   it returned the data of the response exactly when the transport answered,
   and signaled a failure exactly when the transport failed. *)
C3_ExactlyOneOutcome ==
    \A c \in Calls :
        Completed(c) =>
            /\ result[c].state \in { "fulfilled", "rejected" }
            /\ Len(result[c].value) + Len(result[c].reason) = 1
            /\ (result[c].state = "fulfilled") = (Len(result[c].value) = 1)
            /\ (result[c].state = "fulfilled") = (awaited[c].state = "fulfilled")
            /\ result[c].state = "fulfilled" => result[c].value[1] \in DataValues

\* one call has returned a payload and another has signaled a failure
C3_Witness ==
    \E c, d \in Calls :
        /\ Succeeded(c) /\ result[c].state = "fulfilled"
        /\ Failed(d) /\ result[d].state = "rejected"

\* the completion notices on the console
Notices == SelectSeq(console, LAMBDA e : e.label = "User fetch operation completed")
\* the completion notices written by invocation c
NoticesOf(c) == SelectSeq(Notices, LAMBDA e : e.call = c)
\* the fetchUser calls that have run to their end
CompletedFetchUser == { c \in Calls : op[c] = "fetchUser" /\ Completed(c) }

(* C4: every fetchUser call logs the completion notice exactly once, after
   success and after failure alike, so the console holds as many notices as
   fetchUser calls have completed; no other call logs one. *)
C4_OneNoticePerFetchUser ==
    /\ \A c \in Calls :
          Len(NoticesOf(c)) = IF c \in CompletedFetchUser THEN 1 ELSE 0
    /\ Len(Notices) = Cardinality(CompletedFetchUser)

\* two fetchUser calls have completed, one answered and one failed, and the
\* console holds two notices
C4_Witness ==
    \E c, d \in CompletedFetchUser :
        /\ Succeeded(c)
        /\ Failed(d)
        /\ Len(Notices) = 2

\* the failure is a remote response with the given status
RespondedWith(error, status) ==
    KindOf(error) = "remote-responded" /\ error.response[1].status = status

\* a line of invocation c on the console reports the failure: fetchPosts logs
\* the status and body of the response, or the request, or the message; the
\* other operations log the failure itself
Reported(c, error) ==
    \E i \in DOMAIN console :
        console[i] = IF op[c] = "fetchPosts" THEN KindLine(c, error)
                     ELSE OperationLine(c, error)

(* C5: when the remote endpoint answers a read operation with status 404, the
   operation signals a remote-responded failure carrying status 404, and a
   console line reporting that failure is written by then. *)
C5_NotFoundResignaledAfterLog ==
    \A c \in Calls :
        (Failed(c) /\ op[c] \in ReadOps /\ RespondedWith(Raised(c), 404)) =>
            /\ result[c].state = "rejected"
            /\ RespondedWith(result[c].reason[1], 404)
            /\ Reported(c, result[c].reason[1])

\* a fetchUser call was answered 404 and has signaled the failure
C5_Witness ==
    \E c \in Calls :
        /\ op[c] = "fetchUser" /\ Failed(c)
        /\ RespondedWith(Raised(c), 404)
        /\ result[c].state = "rejected"

(* C6: every request carries the fixed timeout of 10000 ms, and when a
   request of any operation was sent and no response arrived (the connection
   failed, or the timeout expired), the operation signals that no-response
   failure, and a console line reporting it is written by then. *)
C6_NoResponseResignaledAfterLog ==
    /\ \A i \in DOMAIN transport : transport[i].timeout = 10000
    /\ \A c \in Calls :
          (Failed(c) /\ KindOf(Raised(c)) = "no-response") =>
              /\ result[c].state = "rejected"
              /\ result[c].reason = Some(Raised(c))
              /\ KindOf(result[c].reason[1]) = "no-response"
              /\ Reported(c, result[c].reason[1])

\* a createPost call has timed out and a fetchPosts call has lost its
\* connection, and both have signaled the failure
C6_Witness ==
    \E c, d \in Calls :
        /\ op[c] = "createPost" /\ Failed(c)
        /\ Raised(c).code = "ECONNABORTED"
        /\ result[c].state = "rejected"
        /\ op[d] = "fetchPosts" /\ Failed(d)
        /\ Raised(d).code = "ERR_NETWORK"
        /\ result[d].state = "rejected"

(* C7: concurrent calls do not interfere: a completed call returns the data
   of the response to its own request, or signals the failure of its own
   request, and the shared client configuration stays as constructed. *)
C7_NoInterference ==
    /\ apiClient = apiClientConfig
    /\ \A c \in Calls :
          /\ Succeeded(c) =>
                /\ awaited[c].value[1].config.call = c
                /\ result[c] = Fulfilled(awaited[c].value[1].data)
          /\ Failed(c) =>
                /\ result[c] = Rejected(Raised(c))
                /\ Len(result[c].reason[1].request) > 0 =>
                      result[c].reason[1].request[1].call = c

\* two calls were in flight together and were answered in the other order,
\* with different payloads: the later one has returned, the earlier has
\* its response and has not resumed yet
C7_Witness ==
    \E c, d \in Calls :
        /\ c < d
        /\ Succeeded(d)
        /\ pc[c] = "awaiting" /\ awaited[c].state = "fulfilled"
        /\ awaited[c].value[1].data # result[d].value[1]

\* the requests handed to the transport for invocation c
RequestsOf(c) == { i \in DOMAIN transport : transport[i].call = c }

(* C8: each call hands exactly one request to the transport, whatever its
   outcome: n calls cause exactly n requests, a failed call is not retried
   and no call is answered without a request. *)
C8_OneRequestPerCall ==
    /\ Len(transport) = nCalls
    /\ \A c \in Calls :
          Cardinality(RequestsOf(c)) = IF pc[c] = "idle" THEN 0 ELSE 1

\* two calls of the same operation with the same argument have completed,
\* the first one failed, and two requests were made
C8_Witness ==
    \E c, d \in Calls :
        /\ c < d
        /\ op[c] = op[d] /\ args[c] = args[d]
        /\ Failed(c) /\ Completed(d)
        /\ Len(transport) = 2

(* C9: fetchPosts(N), N > 0, issues a GET to /posts whose query parameter
   _limit is N, and fetchPosts() one whose _limit is 10. *)
C9_LimitIsRequested ==
    \A c \in Calls :
        (op[c] = "fetchPosts" /\ pc[c] # "idle") =>
            /\ RequestsOf(c) # {}
            /\ \A i \in RequestsOf(c) :
                  /\ transport[i].method = "GET"
                  /\ transport[i].url.lit = "/posts"
                  /\ transport[i].url.sub = << >>
                  /\ Len(transport[i].params) = 1
                  /\ transport[i].params[1]._limit =
                        IF args[c] = << >> THEN 10 ELSE args[c][1]
                  /\ transport[i].params[1]._limit > 0

\* fetchPosts was called with a limit other than the default, and the
\* request asks for that many
C9_Witness ==
    \E c \in Calls :
        /\ op[c] = "fetchPosts" /\ pc[c] # "idle"
        /\ Len(args[c]) = 1 /\ args[c][1] > 10
        /\ \E i \in RequestsOf(c) : transport[i].params[1]._limit = args[c][1]

\* the number a sequence of decimal digits denotes
RECURSIVE ParseDecimal(_)
ParseDecimal(digits) ==
    IF digits = << >> THEN 0
    ELSE 10 * ParseDecimal(SubSeq(digits, 1, Len(digits) - 1)) + digits[Len(digits)]

\* the path is the prefix followed by exactly the decimal numeral of the id
PathNames(url, prefix, id) ==
    /\ url.lit = prefix
    /\ Len(url.sub) >= 1
    /\ \A k \in DOMAIN url.sub : url.sub[k] \in 0..9
    /\ Len(url.sub) > 1 => url.sub[1] # 0
    /\ ParseDecimal(url.sub) = id

(* C10: fetchPostById(id) issues its GET to /posts/<id> and fetchUser(id)
   its GET to /users/<id>, the path naming exactly the id passed. *)
C10_PathNamesTheId ==
    \A c \in Calls :
        (op[c] \in { "fetchPostById", "fetchUser" } /\ pc[c] # "idle") =>
            /\ RequestsOf(c) # {}
            /\ \A i \in RequestsOf(c) :
                  /\ transport[i].method = "GET"
                  /\ transport[i].params = None
                  /\ PathNames(transport[i].url,
                               IF op[c] = "fetchUser" THEN "/users/" ELSE "/posts/",
                               args[c][1])

\* fetchUser was called with a two-digit id and its request names that id
C10_Witness ==
    \E c \in Calls :
        /\ op[c] = "fetchUser" /\ pc[c] # "idle"
        /\ args[c][1] >= 10
        /\ \E i \in RequestsOf(c) :
              /\ transport[i].url.lit = "/users/"
              /\ Len(transport[i].url.sub) = 2
              /\ ParseDecimal(transport[i].url.sub) = args[c][1]

(* C11: createPost(data) issues a POST to /posts whose body is the caller's
   data unchanged, and on success returns the body of the remote response
   unchanged. *)
C11_PayloadPassesThrough ==
    \A c \in Calls :
        (op[c] = "createPost" /\ pc[c] # "idle") =>
            /\ RequestsOf(c) # {}
            /\ \A i \in RequestsOf(c) :
                  /\ transport[i].method = "POST"
                  /\ transport[i].url.lit = "/posts"
                  /\ transport[i].url.sub = << >>
                  /\ transport[i].params = None
                  /\ transport[i].data = Some(args[c][1])
            /\ Succeeded(c) =>
                  /\ result[c].state = "fulfilled"
                  /\ result[c].value = Some(awaited[c].value[1].data)

\* a createPost call posted one payload, was answered with another, and has
\* returned the answer
C11_Witness ==
    \E c \in Calls :
        /\ op[c] = "createPost" /\ Succeeded(c)
        /\ \E i \in RequestsOf(c) : transport[i].data = Some(args[c][1])
        /\ awaited[c].value[1].data # args[c][1]
        /\ result[c].value = Some(awaited[c].value[1].data)

(* C12: the main store's globalCounter is 0 in a freshly created store and
   each increment() raises it by exactly 1: after n increment() calls the
   counter equals n. *)
C12_CounterCountsIncrements ==
    store # None => store[1].globalCounter = increments

\* the store was created while the browser storage held a saved counter, and
\* has been incremented three times
C12_Witness ==
    /\ store # None
    /\ storage # None /\ storage[1] > 0
    /\ increments = 3
    /\ store[1].globalCounter = 3

====
